---- MODULE Spec2Model ----
(***************************************************************************)
(* Streaming synthesis / playback pipeline of the webpage-tts extension.   *)
(*                                                                         *)
(*   - the Playback Engine (HTMLAudioStrategy, lib/audio.ts) that runs in  *)
(*     the offscreen document and its message listener (offscreen.ts);     *)
(*   - the background coordinator (lib/text.ts): runSpeak, the onMessage   *)
(*     listener, sendToOffscreen and ensureOffscreen;                      *)
(*   - the host: the offscreen document may be torn down at any time, and  *)
(*     every host API call, network call and message is a suspension point.*)
(*                                                                         *)
(* Times are integers in milliseconds, playback rates are integers in      *)
(* tenths (10 is rate 1.0, 15 is rate 1.5), a null requestId is 0.         *)
(***************************************************************************)
EXTENDS Integers, Sequences, FiniteSets, TLC

(***************************************************************************)
(* Bounds of the model.                                                    *)
(***************************************************************************)
MaxEnq == 3          \* SpecEngine: enqueue operations in one behaviour
MaxEpoch == 2        \* SpecEngine: request ids carried by enqueue / reset
MaxCommands == 2     \* Spec: commands of the side panel (speak, stop, ...)
MaxChunks == 3       \* Spec: chunks of one text
MaxTeardowns == 1    \* Spec: times the host closes the offscreen document
MaxText == 5         \* SpecText, SpecLoop: characters of a text
MaxLen == 3          \* SpecText, SpecLoop: the maxLen of a call

(***************************************************************************)
(* Program constants.                                                      *)
(***************************************************************************)
DoneEpsMs == 50          \* audio.ts:249   playedDurationSec >= total - 0.05
DefaultRate == 10        \* audio.ts:125   playbackRate ?? 1
NanRate == -1            \* stands for a non-finite rate (NaN, Infinity)

ActualMs == {1000}       \* decoded durations of the audio units of the model
Rates == {10, 15}        \* valid playback rates
BadRates == {0, NanRate} \* a non-positive and a non-finite rate

(***************************************************************************)
(* The Playback Engine: HTMLAudioStrategy.                                  *)
(*                                                                         *)
(* A unit is a queue item {buffer, playbackRate, durationSec}.  The buffer *)
(* is represented by what the model needs of it: `actual`, the duration    *)
(* the decoder reports for it (audio.duration), and two history fields,    *)
(* `rid` and `idx`, naming the request and chunk the bytes were            *)
(* synthesized for.  durationSec = 0 is an unknown duration                *)
(* (queue.push stores durationSec || 0).                                   *)
(*                                                                         *)
(* The current HTMLAudioElement is the fields current (the unit it was     *)
(* built from, with the element's playbackRate), currentTime and           *)
(* playPromise: "pending" from audio.play() until playback begins, "ok"    *)
(* once it resolved, "aborting" when pause() interrupted a pending play()  *)
(* (the HTML standard rejects the pending promise with AbortError).        *)
(*                                                                         *)
(* progress is the last playback_progress event the engine emitted.        *)
(***************************************************************************)
NoUnit == [playbackRate |-> 0, durationSec |-> 0, actual |-> 0, rid |-> 0, idx |-> 0]

Unit(rate, dur, actual, rid, idx) ==
    [playbackRate |-> rate, durationSec |-> dur, actual |-> actual, rid |-> rid, idx |-> idx]

NewEngine ==
    [ queue |-> <<>>,
      current |-> NoUnit,
      currentTime |-> 0,
      playPromise |-> "none",
      paused |-> FALSE,
      playbackRate |-> DefaultRate,
      totalDurationSec |-> 0,
      playedDurationSec |-> 0,
      currentDurationSec |-> 0,
      requestId |-> 0,
      orphan |-> FALSE,
      progress |-> [state |-> "idle", playedSec |-> 0, totalSec |-> 0] ]

\* emitProgress(state, true): a forced emission.  A null state resolves to
\* paused / playing / idle.
resolvedState(e, state) ==
    IF state # "" THEN state
    ELSE IF e.paused THEN "paused"
    ELSE IF e.current # NoUnit THEN "playing" ELSE "idle"

emitProgress(e, state) ==
    [e EXCEPT !.progress =
        [ state |-> resolvedState(e, state),
          playedSec |-> e.playedDurationSec +
                        (IF e.current # NoUnit THEN e.currentTime ELSE 0),
          totalSec |-> e.totalDurationSec ]]

\* the element that leaves may still have its play() promise unsettled
cleanupCurrent(e) ==
    [e EXCEPT !.current = NoUnit, !.currentTime = 0, !.playPromise = "none",
              !.orphan = @ \/ e.playPromise \in {"pending", "aborting"}]

stop(e) ==
    emitProgress(
        [cleanupCurrent(e) EXCEPT !.queue = <<>>,
                                  !.totalDurationSec = 0,
                                  !.playedDurationSec = 0,
                                  !.currentDurationSec = 0],
        "stopped")

resetUnbound(e, requestId) == emitProgress(stop(e), "idle")

reset(e, requestId) ==
    emitProgress(
        [stop(e) EXCEPT !.totalDurationSec = 0,
                        !.playedDurationSec = 0,
                        !.currentDurationSec = 0,
                        !.requestId = requestId],
        "idle")

playNextLast(e) ==
    IF Len(e.queue) = 0 \/ e.paused
    THEN IF e.current = NoUnit
         THEN LET isComplete == e.totalDurationSec > 0 /\
                                e.playedDurationSec >= e.totalDurationSec - DoneEpsMs
              IN emitProgress(e, IF e.paused THEN "paused"
                                 ELSE IF isComplete THEN "done" ELSE "idle")
         ELSE e
    ELSE LET item == e.queue[Len(e.queue)]
         IN [e EXCEPT !.queue = SubSeq(e.queue, 1, Len(e.queue) - 1),
                      !.current = item,
                      !.currentTime = 0,
                      !.playPromise = "pending",
                      !.currentDurationSec = item.durationSec]

playNext(e) ==
    IF Len(e.queue) = 0 \/ e.paused
    THEN IF e.current = NoUnit
         THEN LET isComplete == e.totalDurationSec > 0 /\
                                e.playedDurationSec >= e.totalDurationSec - DoneEpsMs
              IN emitProgress(e, IF e.paused THEN "paused"
                                 ELSE IF isComplete THEN "done" ELSE "idle")
         ELSE e
    ELSE LET item == Head(e.queue)
         IN [e EXCEPT !.queue = Tail(e.queue),
                      !.current = item,
                      !.currentTime = 0,
                      !.playPromise = "pending",
                      !.currentDurationSec = item.durationSec]

enqueueMerging(e, u, requestId) ==
    LET e1 == IF requestId # 0 THEN [e EXCEPT !.requestId = requestId] ELSE e
        e2 == IF u.durationSec > 0
              THEN [e1 EXCEPT !.totalDurationSec = @ + u.durationSec]
              ELSE e1
        e3 == emitProgress([e2 EXCEPT !.queue = Append(@, u)], "buffering")
    IN IF e3.current = NoUnit /\ ~e3.paused THEN playNext(e3) ELSE e3

\* enqueue(audioBuffer, playbackRate, durationSec, requestId); u carries the
\* buffer, the rate and the duration (0 when null).
enqueue(e, u, requestId) ==
    LET e1 == IF requestId # 0 /\ e.requestId # 0 /\ requestId # e.requestId
              THEN reset(e, requestId)
              ELSE IF requestId # 0 THEN [e EXCEPT !.requestId = requestId]
              ELSE e
        e2 == IF u.durationSec > 0
              THEN [e1 EXCEPT !.totalDurationSec = @ + u.durationSec]
              ELSE e1
        e3 == emitProgress([e2 EXCEPT !.queue = Append(@, u)], "buffering")
    IN IF e3.current = NoUnit /\ ~e3.paused THEN playNext(e3) ELSE e3

\* audio.onended: the element's duration when finite, else currentDurationSec.
finished(e) ==
    IF e.current.actual > 0 THEN e.current.actual ELSE e.currentDurationSec

onended(e) ==
    LET e1 == IF finished(e) > 0
              THEN [e EXCEPT !.playedDurationSec = @ + finished(e)]
              ELSE e
    IN playNext(emitProgress(cleanupCurrent(e1), "buffering"))

\* audio.onerror, and the rejection handler of audio.play().
onerrorStops(e) == stop(e)

onerror(e) == playNext(cleanupCurrent(e))

onplayrejected(e) == playNext(cleanupCurrent([e EXCEPT !.playPromise = "rejected"]))

onplayrejectedStaleUnchecked(e, more) ==
    playNext(cleanupCurrent([e EXCEPT !.orphan = more]))

\* the rejection handler of the play() promise of a discarded element:
\* this.current is null or a newer element, never the discarded one; `more`
\* tells whether another discarded element still has a pending promise
onplayrejectedStale(e, more) == [e EXCEPT !.orphan = more]

\* the fulfilment handler of audio.play()
onplaying(e) == emitProgress([e EXCEPT !.playPromise = "ok"], "playing")

\* audio.ontimeupdate at position t: emitProgress() unless throttled
ontimeupdate(e, t, throttled) ==
    LET e1 == [e EXCEPT !.currentTime = t]
    IN IF throttled THEN e1 ELSE emitProgress(e1, "")

\* a pause that rewinds the element, as stop() does
pauseRewinds(e) ==
    emitProgress([e EXCEPT !.paused = TRUE, !.currentTime = 0], "paused")

pause(e) ==
    LET e1 == [e EXCEPT !.paused = TRUE]
        e2 == IF e1.current # NoUnit /\ e1.playPromise = "pending"
              THEN [e1 EXCEPT !.playPromise = "aborting"]
              ELSE e1
    IN emitProgress(e2, "paused")

resumeSkips(e) == playNext(cleanupCurrent([e EXCEPT !.paused = FALSE]))

resume(e) ==
    LET e1 == [e EXCEPT !.paused = FALSE]
    IN IF e1.current # NoUnit
       THEN emitProgress(
              [e1 EXCEPT !.current.playbackRate =
                            IF e1.playbackRate # 0 THEN e1.playbackRate ELSE DefaultRate],
              "playing")
       ELSE playNext(e1)

\* a rate change that reaches the current element only
setPlaybackRateCurrentOnly(e, rate) ==
    IF rate = NanRate \/ rate <= 0 THEN e
    ELSE LET e1 == [e EXCEPT !.playbackRate = rate]
         IN IF e1.current # NoUnit
            THEN [e1 EXCEPT !.current.playbackRate = rate]
            ELSE e1

setPlaybackRate(e, rate) ==
    IF rate = NanRate \/ rate <= 0 THEN e
    ELSE LET e1 == [e EXCEPT !.playbackRate = rate,
                             !.queue = [k \in DOMAIN e.queue |->
                                          [e.queue[k] EXCEPT !.playbackRate = rate]]]
         IN IF e1.current # NoUnit
            THEN [e1 EXCEPT !.current.playbackRate = rate]
            ELSE e1

(***************************************************************************)
(* State.                                                                  *)
(*                                                                         *)
(*   eng        the engine of the offscreen document                       *)
(*   docAlive   whether the host currently has an offscreen document       *)
(*   state      the coordinator's state {requestId, aborters}; a           *)
(*              controller is <<run, chunk>>                               *)
(*   runs       the runSpeak invocations, each at one of its awaits        *)
(*   handlers   the ensureOffscreen().then(...) continuations of the       *)
(*              stop / pause / resume / set_playback_rate handlers         *)
(*   off        offscreenReady, offscreenCreating and the creation         *)
(*              promises made so far; cached is the set of callers         *)
(*              awaiting hasDocument() at line 393                         *)
(*   micro      the coordinator's microtask queue: continuations of        *)
(*              settled promises, run in order before any other task       *)
(*   chan       messages sent to the offscreen document, in send order     *)
(*   lastOp, nEnq, hist, budget   history and bookkeeping of the model     *)
(*   call       one call of chunkText: its arguments and, once it has      *)
(*              returned, its result                                       *)
(***************************************************************************)
VARIABLES eng, docAlive, state, runs, handlers, off, micro, chan,
          lastOp, nEnq, hist, budget, call

cvars == <<docAlive, state, runs, handlers, off, micro, chan, budget>>

vars == <<eng, docAlive, state, runs, handlers, off, micro, chan,
          lastOp, nEnq, hist, budget, call>>

\* no call of chunkText
NoCall == [text |-> <<>>, maxLen |-> 0, done |-> FALSE, chunks |-> <<>>]

RunIds == 1..MaxCommands
HandlerIds == 1..MaxCommands
Epochs == 1..(IF MaxEpoch > MaxCommands THEN MaxEpoch ELSE MaxCommands)
CreationIds == 1..(MaxCommands + 1)

\* a task is a caller of ensureOffscreen(): run r is r, handler k is -k
IsRun(t) == t > 0

NewRun ==
    [ pc |-> "idle", requestId |-> 0, chunks |-> 0, i |-> 0,
      stopped |-> FALSE, aborted |-> FALSE,
      chunkDurationSec |-> 0, playbackRate |-> DefaultRate,
      wavOk |-> TRUE, httpStatus |-> 0, error |-> "none", page |-> "none",
      response |-> "none",
      terminal |-> "none", delivered |-> FALSE ]

NoHandler == [type |-> "none", rate |-> 0, origin |-> 0]

NoCreation == [st |-> "free", waiters |-> <<>>]

NewOff ==
    [ offscreenReady |-> FALSE, offscreenCreating |-> 0,
      creations |-> [c \in CreationIds |-> NoCreation], cached |-> {} ]

NewHist ==
    [ enq |-> [e \in Epochs |-> 0], started |-> [e \in Epochs |-> 0],
      rate |-> [e \in Epochs |-> 0], stops |-> {}, scenario |-> 0 ]

NewBudget == [commands |-> 0, stops |-> 0, teardowns |-> 0, handlers |-> 0]

CInit ==
    /\ state = [requestId |-> 0, aborters |-> {}]
    /\ runs = [r \in RunIds |-> NewRun]
    /\ handlers = [k \in HandlerIds |-> NoHandler]
    /\ off = NewOff
    /\ micro = <<>>
    /\ chan = <<>>
    /\ hist = NewHist
    /\ budget = NewBudget

\* history: the highest chunk of each request that began to play
Buffer(u) == [u EXCEPT !.playbackRate = 0]

Starts(e0, e1) ==
    e1.current # NoUnit /\ Buffer(e1.current) # Buffer(e0.current)

TrackStart(h, e0, e1) ==
    IF Starts(e0, e1) /\ e1.current.rid > 0
    THEN [h EXCEPT !.started[e1.current.rid] = e1.current.idx]
    ELSE h

Did(op, arg, e) ==
    /\ eng' = e
    /\ lastOp' = [op |-> op, arg |-> arg, prev |-> (lastOp.op = "pause")]
    /\ hist' = TrackStart(hist, eng, e)

(***************************************************************************)
(* Callbacks of the current audio element (both specifications).           *)
(***************************************************************************)
\* playback of the current element began
EPlaying ==
    /\ docAlive /\ micro = <<>>
    /\ eng.current # NoUnit /\ eng.playPromise = "pending" /\ ~eng.paused
    /\ Did("playing", 0, onplaying(eng))
    /\ UNCHANGED <<nEnq, call, cvars>>

EPlayRejected ==
    /\ docAlive /\ micro = <<>>
    /\ eng.current # NoUnit /\ eng.playPromise \in {"pending", "aborting"}
    /\ Did("playrejected", 0, onplayrejected(eng))
    /\ UNCHANGED <<nEnq, call, cvars>>

ETimeUpdate ==
    /\ docAlive /\ micro = <<>>
    /\ eng.current # NoUnit /\ eng.playPromise = "ok" /\ ~eng.paused
    /\ \E t \in {eng.current.actual \div 2, eng.current.actual}, th \in BOOLEAN :
          /\ t > eng.currentTime
          /\ Did("timeupdate", 0, ontimeupdate(eng, t, th))
    /\ UNCHANGED <<nEnq, call, cvars>>

EEnded ==
    /\ docAlive /\ micro = <<>>
    /\ eng.current # NoUnit /\ eng.playPromise = "ok" /\ ~eng.paused
    /\ Did("ended", 0, onended([eng EXCEPT !.currentTime = eng.current.actual]))
    /\ UNCHANGED <<nEnq, call, cvars>>

EError ==
    /\ docAlive /\ micro = <<>>
    /\ eng.current # NoUnit
    /\ Did("error", 0, onerror(eng))
    /\ UNCHANGED <<nEnq, call, cvars>>

\* the play() promise of a discarded element rejects
EStaleRejected ==
    /\ docAlive /\ micro = <<>>
    /\ eng.orphan
    /\ \E more \in BOOLEAN : Did("stalerejected", 0, onplayrejectedStale(eng, more))
    /\ UNCHANGED <<nEnq, call, cvars>>

(***************************************************************************)
(* SpecEngine: the engine alone, driven by every sequence of its           *)
(* operations and of the callbacks of the current audio element.           *)
(***************************************************************************)
\* a unit as the offscreen listener hands it to the engine: the duration is
\* known (the decoded duration) or unknown (0)
EngineUnits ==
    { Unit(r, d, a, 0, 0) : r \in Rates, a \in ActualMs, d \in {0} }
    \cup { Unit(r, a, a, 0, 0) : r \in Rates, a \in ActualMs }

EInit ==
    /\ eng = NewEngine
    /\ docAlive = TRUE
    /\ lastOp = [op |-> "init", arg |-> 0, prev |-> FALSE]
    /\ nEnq = 0
    /\ call = NoCall
    /\ CInit

EEnqueue ==
    /\ nEnq < MaxEnq
    /\ \E u \in EngineUnits, rid \in 0..MaxEpoch :
          Did("enqueue",
              IF rid # 0 /\ eng.requestId # 0 /\ rid # eng.requestId THEN 1 ELSE 0,
              enqueue(eng, u, rid))
    /\ nEnq' = nEnq + 1
    /\ UNCHANGED <<call, cvars>>

EReset ==
    /\ \E rid \in 0..MaxEpoch : Did("reset", rid, reset(eng, rid))
    /\ nEnq' = 0
    /\ UNCHANGED <<call, cvars>>

EStop == Did("stop", 0, stop(eng)) /\ nEnq' = 0 /\ UNCHANGED <<call, cvars>>

EPause == Did("pause", 0, pause(eng)) /\ UNCHANGED <<nEnq, call, cvars>>

EResume == Did("resume", 0, resume(eng)) /\ UNCHANGED <<nEnq, call, cvars>>

ESetRate ==
    /\ \E r \in Rates \cup BadRates : Did("setPlaybackRate", r, setPlaybackRate(eng, r))
    /\ UNCHANGED <<nEnq, call, cvars>>

ENext ==
    \/ EEnqueue \/ EReset \/ EStop \/ EPause \/ EResume \/ ESetRate
    \/ EPlaying \/ EPlayRejected \/ ETimeUpdate \/ EEnded \/ EError \/ EStaleRejected

SpecEngine == EInit /\ [][ENext]_vars

(***************************************************************************)
(* The Surface Lifecycle Manager: ensureOffscreen().                       *)
(*                                                                         *)
(* A creation is one run of the async function at lines 402-415: "has"     *)
(* while it awaits hasDocument(), "create" while it awaits                 *)
(* createDocument(), then "done" or "failed"; its waiters are the callers  *)
(* that were handed its promise, in the order they were.                   *)
(***************************************************************************)
\* a creation that has settled and that offscreenCreating no longer names is
\* garbage: its slot is free again
Collect(o) ==
    [o EXCEPT !.creations =
        [c \in CreationIds |->
            IF o.creations[c].st \in {"done", "failed"} /\ o.offscreenCreating # c
            THEN NoCreation ELSE o.creations[c]]]

FreeCreation(o) ==
    CHOOSE c \in CreationIds :
        /\ o.creations[c].st = "free"
        /\ \A d \in CreationIds : o.creations[d].st = "free" => c <= d

\* offscreenReady = false; offscreenCreating = null
forget(o) == Collect([o EXCEPT !.offscreenReady = FALSE, !.offscreenCreating = 0])

\* lines 400-417: hand out the creation in flight, or start one
ensureOffscreenFrom400(o, t) ==
    IF o.offscreenCreating # 0
    THEN LET c == o.creations[o.offscreenCreating]
         IN IF c.st \in {"has", "create"}
            THEN [ off |-> [o EXCEPT !.creations[o.offscreenCreating].waiters =
                                          Append(@, t)],
                   wake |-> <<>> ]
            ELSE [ off |-> o, wake |-> <<[t |-> t, ok |-> c.st = "done"]>> ]
    ELSE LET c == FreeCreation(o)
         IN [ off |-> [o EXCEPT !.creations[c] = [st |-> "has", waiters |-> <<t>>],
                                !.offscreenCreating = c],
              wake |-> <<>> ]

ensureOffscreenTrusting(o, t) ==
    IF o.offscreenReady
    THEN [off |-> o, wake |-> <<[t |-> t, ok |-> TRUE]>>]
    ELSE ensureOffscreenFrom400(o, t)

\* lines 391-418, up to the first await of the call
ensureOffscreen(o, t) ==
    IF o.offscreenReady
    THEN [off |-> [o EXCEPT !.cached = @ \cup {t}], wake |-> <<>>]
    ELSE ensureOffscreenFrom400(o, t)

\* lines 393-399: hasDocument() of a caller that found offscreenReady set
HasDocumentCached(t) ==
    /\ micro = <<>>
    /\ t \in off.cached
    /\ LET o == [off EXCEPT !.cached = @ \ {t}]
       IN IF docAlive
          THEN /\ off' = o
               /\ micro' = <<[t |-> t, ok |-> TRUE]>>
          ELSE LET res == ensureOffscreenFrom400(forget(o), t)
               IN /\ off' = res.off
                  /\ micro' = res.wake
    /\ UNCHANGED <<eng, docAlive, state, runs, handlers, chan, lastOp, nEnq, call, hist, budget>>

Wake(c, ok) == [k \in DOMAIN c.waiters |-> [t |-> c.waiters[k], ok |-> ok]]

\* how a call of the host API settles
HostOutcomes == {"ok", "rejects"}
SpecOutcomes == {"ok"}

\* the creation's async function throws: its promise rejects, and neither
\* offscreenReady nor offscreenCreating is written
creationRejects(o, c) ==
    Collect([o EXCEPT !.creations[c] = [st |-> "failed", waiters |-> <<>>]])

\* lines 403-405, 413-414: hasDocument() inside a creation
CreationHasDocument(c, outcomes) ==
    /\ micro = <<>>
    /\ off.creations[c].st = "has"
    /\ \E h \in outcomes :
         IF h = "rejects"
         THEN /\ off' = creationRejects(off, c)
              /\ micro' = Wake(off.creations[c], FALSE)
         ELSE IF docAlive
         THEN /\ off' = Collect([off EXCEPT !.creations[c] = [st |-> "done", waiters |-> <<>>],
                                            !.offscreenReady = TRUE])
              /\ micro' = Wake(off.creations[c], TRUE)
         ELSE /\ off' = [off EXCEPT !.creations[c].st = "create"]
              /\ micro' = <<>>
    /\ UNCHANGED <<eng, docAlive, state, runs, handlers, chan, lastOp, nEnq, call, hist, budget>>

\* lines 407-414: createDocument() settles; the host allows one offscreen
\* document, so it rejects when another creation already made one
CreationCreateDocument(c, outcomes) ==
    /\ micro = <<>>
    /\ off.creations[c].st = "create"
    /\ \E h \in outcomes :
         IF h = "ok" /\ ~docAlive
         THEN /\ docAlive' = TRUE
              /\ eng' = NewEngine
              /\ off' = Collect([off EXCEPT !.creations[c] = [st |-> "done", waiters |-> <<>>],
                                            !.offscreenReady = TRUE])
              /\ micro' = Wake(off.creations[c], TRUE)
         ELSE /\ UNCHANGED <<docAlive, eng>>
              /\ off' = creationRejects(off, c)
              /\ micro' = Wake(off.creations[c], FALSE)
    /\ UNCHANGED <<state, runs, handlers, chan, lastOp, nEnq, call, hist, budget>>

(***************************************************************************)
(* Messages to the offscreen document.  live: the document that was there  *)
(* when the message was sent is still there.  reply: the run whose         *)
(* sendToOffscreen awaits the response (0: chrome.runtime.sendMessage      *)
(* without a callback).  origin: for the offscreen_stop of a stop command, *)
(* the request that was in flight when stop was accepted (history).        *)
(***************************************************************************)
Msg(type, requestId, unit, rate, reply, origin) ==
    [ type |-> type, requestId |-> requestId, unit |-> unit, rate |-> rate,
      reply |-> reply, origin |-> origin, live |-> docAlive ]

\* offscreen.ts, the onMessage listener
offscreenOnMessage(e, m) ==
    CASE m.type = "offscreen_enqueue" -> enqueue(e, m.unit, m.requestId)
      [] m.type = "offscreen_reset" -> reset(e, m.requestId)
      [] m.type = "offscreen_stop" -> stop(e)
      [] m.type = "offscreen_pause" -> pause(e)
      [] m.type = "offscreen_resume" -> resume(e)
      [] m.type = "offscreen_set_rate" -> setPlaybackRate(e, m.rate)

\* the oldest message reaches the document and is handled, or finds no
\* receiver; sendToOffscreen's callback gets the response or the error
Deliver ==
    /\ micro = <<>>
    /\ chan # <<>>
    /\ LET m == Head(chan)
           ok == m.live /\ docAlive
       IN /\ chan' = Tail(chan)
          /\ IF ok
             THEN /\ eng' = offscreenOnMessage(eng, m)
                  /\ hist' = LET h == TrackStart(hist, eng, eng')
                             IN [h EXCEPT
                                   !.enq = IF m.type = "offscreen_enqueue"
                                           THEN [@ EXCEPT ![m.requestId] = m.unit.idx]
                                           ELSE @,
                                   !.rate = IF m.type = "offscreen_set_rate" /\ eng.requestId # 0
                                            THEN [@ EXCEPT ![eng.requestId] = m.rate]
                                            ELSE @,
                                   !.stops = IF m.type = "offscreen_stop" /\ m.origin # 0
                                             THEN @ \cup {m.origin} ELSE @]
             ELSE UNCHANGED <<eng, hist>>
          /\ runs' = IF m.reply # 0
                     THEN [runs EXCEPT ![m.reply].response = IF ok THEN "ok" ELSE "gone",
                                       ![m.reply].delivered = ok]
                     ELSE runs
    /\ UNCHANGED <<docAlive, state, handlers, off, micro, lastOp, nEnq, call, budget>>

\* a send that fails with an error other than a vanished receiver
SendError ==
    /\ micro = <<>>
    /\ chan # <<>>
    /\ Head(chan).reply # 0
    /\ chan' = Tail(chan)
    /\ runs' = [runs EXCEPT ![Head(chan).reply].response = "other"]
    /\ UNCHANGED <<eng, docAlive, state, handlers, off, micro, lastOp, nEnq, call, hist, budget>>

\* the host closes the offscreen document: the engine and the messages on
\* their way to it are lost
HostTeardown ==
    /\ micro = <<>>
    /\ docAlive
    /\ budget.teardowns < MaxTeardowns
    /\ budget' = [budget EXCEPT !.teardowns = @ + 1]
    /\ docAlive' = FALSE
    /\ eng' = NewEngine
    /\ chan' = [k \in DOMAIN chan |-> [chan[k] EXCEPT !.live = FALSE]]
    /\ UNCHANGED <<state, runs, handlers, off, micro, lastOp, nEnq, call, hist>>

(***************************************************************************)
(* The Segmenter: normalizeText and chunkText.  A string is a sequence of  *)
(* one-character strings; indices are those of the code, from 0.           *)
(***************************************************************************)
isSpace(c) == c \in {" ", "\n"}

\* s.slice(a, b)
slice(s, a, b) == SubSeq(s, a + 1, b)

RECURSIVE trimStart(_)
trimStart(s) ==
    IF s # <<>> /\ isSpace(Head(s)) THEN trimStart(Tail(s)) ELSE s

RECURSIVE trimEnd(_)
trimEnd(s) ==
    IF s # <<>> /\ isSpace(s[Len(s)]) THEN trimEnd(SubSeq(s, 1, Len(s) - 1)) ELSE s

\* s.trim()
trim(s) == trimEnd(trimStart(s))

\* s.replace(/\s+/g, " "): of every run of whitespace the first character
\* is kept, as a space
collapse(s) ==
    LET kept == SelectSeq([k \in 1..Len(s) |-> k],
                          LAMBDA k : ~isSpace(s[k]) \/ k = 1 \/ ~isSpace(s[k - 1]))
    IN [j \in 1..Len(kept) |-> IF isSpace(s[kept[j]]) THEN " " ELSE s[kept[j]]]

\* text.ts lines 1-3
normalizeText(text) == trim(collapse(text))

\* s.lastIndexOf(pat): the last index at which pat occurs in s, or -1
lastIndexOf(s, pat) ==
    LET at == {k \in 0..(Len(s) - Len(pat)) : SubSeq(s, k + 1, k + Len(pat)) = pat}
    IN IF at = {} THEN -1 ELSE CHOOSE k \in at : \A j \in at : j <= k

punctMatches == << <<".", " ">>, <<"!", " ">>, <<"?", " ">> >>

\* lines 16-21: the last index of ". ", "! " or "? " in the slice, or -1
lastPunct(sl) ==
    LET idx == {lastIndexOf(sl, punctMatches[k]) : k \in DOMAIN punctMatches}
    IN CHOOSE k \in idx : \A j \in idx : j <= k

windowEndHard(cleaned, maxLen, start) ==
    IF start + maxLen < Len(cleaned) THEN start + maxLen ELSE Len(cleaned)

\* lines 13-28: where the window that begins at start is cut
windowEnd(cleaned, maxLen, start) ==
    LET end0 == IF start + maxLen < Len(cleaned)
                THEN start + maxLen ELSE Len(cleaned)
        sl == slice(cleaned, start, end0)
        splitAt == lastPunct(sl)
        lastSpace == lastIndexOf(sl, <<" ">>)
    IN IF splitAt > 0 /\ end0 < Len(cleaned) THEN start + splitAt + 1
       ELSE IF end0 < Len(cleaned) /\ lastSpace > 0 THEN start + lastSpace
       ELSE end0

\* an iteration that takes the last space of the window also at offset 0
chunkStepAtAnySpace(cleaned, maxLen, start, chunks) ==
    LET end0 == windowEndHard(cleaned, maxLen, start)
        lastSpace == lastIndexOf(slice(cleaned, start, end0), <<" ">>)
        end == IF end0 < Len(cleaned) /\ lastSpace >= 0 THEN start + lastSpace ELSE end0
        chunk == trim(slice(cleaned, start, end))
    IN [ start |-> end,
         chunks |-> IF chunk # <<>> THEN Append(chunks, chunk) ELSE chunks ]

\* lines 13-32: one iteration of the loop, from the window that begins at
\* start to the start of the next one
chunkStep(cleaned, maxLen, start, chunks) ==
    LET end == windowEnd(cleaned, maxLen, start)
        chunk == trim(slice(cleaned, start, end))
    IN [ start |-> end,
         chunks |-> IF chunk # <<>> THEN Append(chunks, chunk) ELSE chunks ]

chunkLoopWhole(cleaned, maxLen, start, chunks) == Append(chunks, cleaned)

\* lines 12-33: the loop of chunkText
RECURSIVE chunkLoop(_, _, _, _)
chunkLoop(cleaned, maxLen, start, chunks) ==
    IF start >= Len(cleaned) THEN chunks
    ELSE LET it == chunkStep(cleaned, maxLen, start, chunks)
         IN chunkLoop(cleaned, maxLen, it.start, it.chunks)

chunkTextWhole(text, maxLen) == <<normalizeText(text)>>

\* lines 5-35
chunkText(text, maxLen) ==
    LET cleaned == normalizeText(text)
    IN IF cleaned = <<>> THEN <<>>
       ELSE IF Len(cleaned) <= maxLen THEN <<cleaned>>
       ELSE chunkLoop(cleaned, maxLen, 0, <<>>)

(***************************************************************************)
(* Access to the page: getTextFromTab, ensureContentScript and the content *)
(* script.  A page is what the run meets in the tab: whether its URL is    *)
(* restricted, what the first ping gets ("ok", "missing": no receiver,     *)
(* "other": another error), whether executeScript succeeds, how many of    *)
(* the pings after the injection fail before one succeeds, and the text of *)
(* the page.  None of these awaits reads or writes the coordinator's       *)
(* state, so the call is one step.                                         *)
(***************************************************************************)
PingAttempts == 5        \* text.ts:374   attempt < 5
SpeakChunkSize == 1      \* chunkSize of the speak messages

Page(restricted, ping, inject, failures, text) ==
    [ restricted |-> restricted, ping |-> ping, inject |-> inject,
      failures |-> failures, text |-> text ]

\* n one-letter words
Words(n) == [k \in 1..(2 * n - 1) |-> IF k % 2 = 1 THEN "a" ELSE " "]

PageTexts == {<<>>, <<" ", "\n">>, Words(1), Words(MaxChunks)}

Pages ==
    { Page(rs, pg, inj, f, t) :
        rs \in BOOLEAN, pg \in {"ok", "missing", "other"}, inj \in BOOLEAN,
        f \in 0..(PingAttempts + 1), t \in PageTexts }

\* the pages in the specification of concurrent commands
SpecPages ==
    { Page(FALSE, "ok", TRUE, 0, Words(MaxChunks)),
      Page(TRUE, "ok", TRUE, 0, Words(MaxChunks)) }

RECURSIVE retryPingOnceMore(_, _)
retryPingOnceMore(p, attempt) ==
    IF attempt >= PingAttempts + 1 THEN FALSE
    ELSE IF attempt >= p.failures THEN TRUE
    ELSE retryPingOnceMore(p, attempt + 1)

\* lines 374-385: the pings after the injection; TRUE when one succeeds
RECURSIVE retryPing(_, _)
retryPing(p, attempt) ==
    IF attempt >= PingAttempts THEN FALSE
    ELSE IF attempt >= p.failures THEN TRUE
    ELSE retryPing(p, attempt + 1)

\* lines 352-386: TRUE when it returns, FALSE when it throws
ensureContentScript(p) ==
    IF p.ping = "ok" THEN TRUE
    ELSE IF p.ping # "missing" THEN FALSE
    ELSE IF ~p.inject THEN FALSE
    ELSE retryPing(p, 0)

\* content.ts lines 9-20: the text the content script answers with
contentText(p) == trim(p.text)

\* lines 465-487
getTextFromTab(p) ==
    IF p.restricted \/ ~ensureContentScript(p)
    THEN [ok |-> FALSE, error |-> "page", text |-> <<>>]
    ELSE IF contentText(p) = <<>>
    THEN [ok |-> FALSE, error |-> "notext", text |-> <<>>]
    ELSE [ok |-> TRUE, error |-> "none", text |-> contentText(p)]

\* what kind of page the run met (history)
PageClass(p) ==
    IF p.restricted THEN "restricted"
    ELSE IF p.ping = "missing" /\ p.inject /\ p.failures >= PingAttempts
    THEN "unreachable"
    ELSE IF p.ping = "other" \/ (p.ping = "missing" /\ ~p.inject) THEN "broken"
    ELSE IF trim(p.text) = <<>> THEN "empty"
    ELSE "text"

(***************************************************************************)
(* The Request Orchestrator: runSpeak and the onMessage listener.          *)
(*                                                                         *)
(* pc of a run: idle (not yet sent), getTab (line 539), ensure (576),      *)
(* getText (585), fetch (614), sendEnsure (424), awaitResp (426),          *)
(* retryEnsure (439), awaitRetry (440), done (resolved: {ok: true}),       *)
(* failed (threw: {ok: false}).  i is the loop index, terminal the         *)
(* terminal progress event the run emitted, delivered whether the last     *)
(* offscreen_enqueue it sent was handled by an engine (history).           *)
(***************************************************************************)
SpeakRates == {DefaultRate}  \* playbackRate of the speak messages
CommandRates == {15, 0}      \* rate of the set_playback_rate messages
UnitMs == 1000               \* decoded duration of a synthesized chunk

\* an audio buffer, as far as inspectWavHeader reads it
Wav(byteLength, riff, wave, dataSize) ==
    [ byteLength |-> byteLength, riff |-> riff, wave |-> wave,
      channels |-> 1, sampleRate |-> 1000, bitsPerSample |-> 8,
      dataSize |-> dataSize ]

GoodWav == Wav(44 + UnitMs, "RIFF", "WAVE", UnitMs)
BadMagicWav == Wav(44 + UnitMs, "OggS", "....", UnitMs)
ShortWav == Wav(8, "RIFF", "", 0)

\* what the synthesis service answers to POST /tts: a status and a body, the
\* audio of the chunk or the words of an error text
ServerReplies ==
    << [status |-> 200, body |-> GoodWav],
       [status |-> 200, body |-> BadMagicWav],
       [status |-> 200, body |-> ShortWav],
       [status |-> 500, body |-> <<"internal", "error">>],
       [status |-> 500, body |-> <<"Signal", "lost">>] >>

\* the answers in the specification of concurrent commands: well-formed audio
\* and the two error texts
SpecReplies == <<ServerReplies[1], ServerReplies[4], ServerReplies[5]>>

\* the fetch of an aborted controller never gets an answer
NoReply == [status |-> 0, body |-> <<>>]

Err(name, message) == [name |-> name, message |-> message]

\* msg.toLowerCase().includes(w), on the words of the message
toLowerCase(w) ==
    CASE w = "Signal" -> "signal"
      [] w = "Aborted" -> "aborted"
      [] w = "TTS" -> "tts"
      [] OTHER -> w

includes(msg, w) == \E k \in DOMAIN msg : toLowerCase(msg[k]) = w

\* lines 282-287
isAbortError(err) ==
    \/ err.name = "AbortError"
    \/ includes(err.message, "aborted")
    \/ includes(err.message, "signal")

\* lines 489-532: fetchAudio resolves with the body or rejects
fetchAudio(reply) ==
    IF reply.status = 0
    THEN [ok |-> FALSE, err |-> Err("AbortError", <<"signal", "is", "aborted">>)]
    ELSE IF reply.status \notin 200..299
    THEN [ok |-> FALSE, err |-> Err("Error", <<"TTS", "error">> \o reply.body)]
    ELSE [ok |-> TRUE, buf |-> reply.body]

\* audio.ts lines 27-58: the fields absent from the result are 0
inspectWavHeader(b) ==
    IF b.byteLength < 12
    THEN [ok |-> FALSE, reason |-> "too short", channels |-> 0, sampleRate |-> 0,
          bitsPerSample |-> 0, dataSize |-> 0]
    ELSE LET ok == b.riff = "RIFF" /\ b.wave = "WAVE"
         IN IF b.byteLength < 44
            THEN [ok |-> ok, reason |-> "none", channels |-> 0, sampleRate |-> 0,
                  bitsPerSample |-> 0, dataSize |-> 0]
            ELSE [ok |-> ok, reason |-> "none", channels |-> b.channels,
                  sampleRate |-> b.sampleRate,
                  bitsPerSample |-> b.bitsPerSample, dataSize |-> b.dataSize]

durationOfSamples(wavMeta) ==
    IF wavMeta.sampleRate # 0 THEN (wavMeta.dataSize * 1000) \div wavMeta.sampleRate ELSE 0

\* lines 624-639: the duration of the chunk in ms, 0 for null.  The code
\* divides floating-point numbers: bytesPerSample and samples are kept here
\* as fractions of 8 and the quotient is taken once, at the end.
durationOf(wavMeta) ==
    IF wavMeta.sampleRate # 0 /\ wavMeta.dataSize # 0 /\ wavMeta.channels # 0
       /\ wavMeta.bitsPerSample # 0
    THEN LET bytesPerSample8 == wavMeta.bitsPerSample * wavMeta.channels
             samplesPositive == bytesPerSample8 # 0 /\ wavMeta.dataSize > 0
         IN IF samplesPositive /\ wavMeta.sampleRate > 0
            THEN (wavMeta.dataSize * 8 * 1000) \div (bytesPerSample8 * wavMeta.sampleRate)
            ELSE 0
    ELSE 0

cancelledNever(run, err) == FALSE

\* line 616: controller.signal.aborted || isAbortError(err)
cancelled(run, err) == run.aborted \/ isAbortError(err)

nextRequestIdSame(s) == s.requestId

\* state.requestId += 1
nextRequestId(s) == s.requestId + 1

abortNone(rs, s) == rs

\* state.aborters.forEach((c) => c.abort()); state.aborters = []
abortAll(rs, s) ==
    [q \in RunIds |-> IF <<q, rs[q].i + 1>> \in s.aborters
                      THEN [rs[q] EXCEPT !.aborted = TRUE]
                      ELSE rs[q]]

finishDone(run, s) == [run EXCEPT !.pc = "done", !.terminal = "done"]

\* lines 666-675: the terminal progress event
finish(run, s) ==
    [run EXCEPT !.pc = "done",
                !.terminal = IF run.requestId # s.requestId \/ run.stopped
                             THEN "stopped" ELSE "done"]

loopHeadUnchecked(run, s, r) ==
    IF run.i < run.chunks
    THEN [ run |-> [run EXCEPT !.pc = "fetch", !.aborted = FALSE, !.wavOk = TRUE],
           state |-> [s EXCEPT !.aborters = @ \cup {<<r, run.i + 1>>}] ]
    ELSE [ run |-> finish(run, s), state |-> s ]

\* lines 596-600: the head of the loop, up to the fetch of the next chunk
loopHead(run, s, r) ==
    IF run.i < run.chunks /\ run.requestId = s.requestId
    THEN [ run |-> [run EXCEPT !.pc = "fetch", !.aborted = FALSE, !.wavOk = TRUE],
           state |-> [s EXCEPT !.aborters = @ \cup {<<r, run.i + 1>>}] ]
    ELSE [ run |-> finish(run, s), state |-> s ]

\* lines 656-664: the chunk progress event and the next iteration
afterSend(run, s, r) ==
    loopHead([run EXCEPT !.i = @ + 1, !.response = "none"], s, r)

\* the speak message arrives; the side panel's sender has no tab
Speak(r) ==
    /\ micro = <<>>
    /\ runs[r].pc = "idle"
    /\ budget.commands < MaxCommands
    /\ budget' = [budget EXCEPT !.commands = @ + 1]
    /\ \A q \in 1..(r - 1) : runs[q].pc # "idle"
    /\ \E rate \in SpeakRates :
          runs' = [runs EXCEPT ![r].pc = "getTab", ![r].playbackRate = rate]
    /\ UNCHANGED <<eng, docAlive, state, handlers, off, micro, chan, lastOp, nEnq, call, hist>>

\* lines 538-576: getActiveTab() settles; the epoch is bumped
GetTabDone(r) ==
    /\ micro = <<>>
    /\ runs[r].pc = "getTab"
    /\ \E tab \in BOOLEAN :
         IF ~tab
         THEN /\ runs' = [runs EXCEPT ![r].pc = "failed", ![r].error = "tab"]
              /\ UNCHANGED <<state, off, micro>>
         ELSE LET rid == nextRequestId(state)
                  res == ensureOffscreen(off, r)
              IN /\ state' = [requestId |-> rid, aborters |-> {}]
                 /\ runs' = [abortAll(runs, state) EXCEPT ![r].pc = "ensure",
                                                          ![r].requestId = rid]
                 /\ off' = res.off
                 /\ micro' = res.wake
    /\ UNCHANGED <<eng, docAlive, handlers, chan, lastOp, nEnq, call, hist, budget>>

\* lines 585-600: getTextFromTab() settles; chunkText; the start event
GetTextDone(r, pages) ==
    /\ micro = <<>>
    /\ runs[r].pc = "getText"
    /\ \E p \in pages :
         LET res == getTextFromTab(p)
             run == [runs[r] EXCEPT !.page = PageClass(p)]
         IN IF ~res.ok
            THEN /\ runs' = [runs EXCEPT ![r] = [run EXCEPT !.pc = "failed",
                                                            !.error = res.error]]
                 /\ UNCHANGED state
            ELSE LET chunks == chunkText(res.text, SpeakChunkSize)
                     lh == loopHead([run EXCEPT !.chunks = Len(chunks)], state, r)
                 IN /\ runs' = [runs EXCEPT ![r] = lh.run]
                    /\ state' = lh.state
    /\ UNCHANGED <<eng, docAlive, handlers, off, micro, chan, lastOp, nEnq, call, hist, budget>>

\* lines 612-645 and 424: fetchAudio() settles
FetchDone(r, replies) ==
    /\ micro = <<>>
    /\ runs[r].pc = "fetch"
    /\ \E k \in DOMAIN replies :
         LET reply == IF runs[r].aborted THEN NoReply ELSE replies[k]
             res == fetchAudio(reply)
             run == [runs[r] EXCEPT
                        !.httpStatus = IF reply.status \in 200..299 THEN 0
                                       ELSE reply.status]
         IN IF ~res.ok
            THEN /\ runs' = [runs EXCEPT ![r] =
                                IF cancelled(run, res.err)
                                THEN finish([run EXCEPT !.stopped = TRUE], state)
                                ELSE [run EXCEPT !.pc = "failed", !.error = "tts"]]
                 /\ UNCHANGED <<off, micro>>
            ELSE LET wavMeta == inspectWavHeader(res.buf)
                     it == [run EXCEPT !.wavOk = wavMeta.ok,
                                       !.chunkDurationSec = durationOf(wavMeta)]
                 IN IF run.requestId # state.requestId
                    THEN /\ runs' = [runs EXCEPT ![r] = finish(it, state)]
                         /\ UNCHANGED <<off, micro>>
                    ELSE LET ens == ensureOffscreen(off, r)
                         IN /\ runs' = [runs EXCEPT ![r] = [it EXCEPT !.pc = "sendEnsure"]]
                            /\ off' = ens.off
                            /\ micro' = ens.wake
    /\ UNCHANGED <<eng, docAlive, state, handlers, chan, lastOp, nEnq, call, hist, budget>>

enqueueMessage(run, r) ==
    Msg("offscreen_enqueue", run.requestId,
        Unit(run.playbackRate, run.chunkDurationSec, UnitMs, run.requestId, run.i + 1),
        run.playbackRate, r, 0)

runAfterEnsureNoAwait(r, ok) ==
    LET run == runs[r]
        lh == afterSend(run, state, r)
    IN /\ chan' = IF ok /\ run.pc # "ensure"
                  THEN Append(chan, enqueueMessage(run, r)) ELSE chan
       /\ runs' = [runs EXCEPT ![r] = IF run.pc = "ensure"
                                      THEN [run EXCEPT !.pc = "getText"] ELSE lh.run]
       /\ state' = IF run.pc = "ensure" THEN state ELSE lh.state

\* the continuation of a run whose ensureOffscreen() settled
runAfterEnsure(r, ok) ==
    LET run == runs[r]
    IN CASE run.pc = "ensure" ->
              IF ok
              THEN /\ chan' = chan \o << Msg("offscreen_stop", 0, NoUnit, 0, 0, 0),
                                         Msg("offscreen_reset", run.requestId, NoUnit, 0, 0, 0) >>
                   /\ runs' = [runs EXCEPT ![r].pc = "getText"]
                   /\ UNCHANGED state
              ELSE /\ runs' = [runs EXCEPT ![r].pc = "failed", ![r].error = "offscreen"]
                   /\ UNCHANGED <<chan, state>>
         [] run.pc = "sendEnsure" ->
              IF ok
              THEN /\ chan' = Append(chan, enqueueMessage(run, r))
                   /\ runs' = [runs EXCEPT ![r].pc = "awaitResp", ![r].delivered = FALSE]
                   /\ UNCHANGED state
              ELSE /\ runs' = [runs EXCEPT ![r].pc = "failed", ![r].error = "offscreen"]
                   /\ UNCHANGED <<chan, state>>
         [] run.pc = "retryEnsure" ->
              IF ok
              THEN /\ chan' = Append(chan, enqueueMessage(run, r))
                   /\ runs' = [runs EXCEPT ![r].pc = "awaitRetry"]
                   /\ UNCHANGED state
              ELSE LET lh == afterSend(run, state, r)
                   IN /\ runs' = [runs EXCEPT ![r] = lh.run]
                      /\ state' = lh.state
                      /\ UNCHANGED chan

\* the .then() of a stop / pause / resume / set_playback_rate handler
handlerAfterEnsure(k, ok) ==
    /\ chan' = IF ok
               THEN Append(chan, Msg(handlers[k].type, 0, NoUnit, handlers[k].rate,
                                     0, handlers[k].origin))
               ELSE chan
    /\ handlers' = [handlers EXCEPT ![k] = NoHandler]

RunMicrotask ==
    /\ micro # <<>>
    /\ micro' = Tail(micro)
    /\ LET m == Head(micro)
       IN IF IsRun(m.t)
          THEN runAfterEnsure(m.t, m.ok) /\ UNCHANGED handlers
          ELSE handlerAfterEnsure(-m.t, m.ok) /\ UNCHANGED <<runs, state>>
    /\ UNCHANGED <<eng, docAlive, off, lastOp, nEnq, call, hist, budget>>

shouldRetryAlways(pc, response) == response \in {"gone", "other"}

\* lines 431-435: retry after the first send, when the receiver is gone
shouldRetry(pc, response) == pc = "awaitResp" /\ response = "gone"

\* lines 426-461: the callback of chrome.runtime.sendMessage
OnResponse(r) ==
    /\ micro = <<>>
    /\ runs[r].pc \in {"awaitResp", "awaitRetry"}
    /\ runs[r].response # "none"
    /\ IF shouldRetry(runs[r].pc, runs[r].response)
       THEN LET res == ensureOffscreen(forget(off), r)
            IN /\ runs' = [runs EXCEPT ![r].pc = "retryEnsure", ![r].response = "none"]
               /\ off' = res.off
               /\ micro' = res.wake
               /\ UNCHANGED state
       ELSE LET lh == afterSend(runs[r], state, r)
            IN /\ runs' = [runs EXCEPT ![r] = lh.run]
               /\ state' = lh.state
               /\ UNCHANGED <<off, micro>>
    /\ UNCHANGED <<eng, docAlive, handlers, chan, lastOp, nEnq, call, hist, budget>>

InFlight(run) == run.pc \notin {"idle", "getTab", "done", "failed"}

\* the scenario of C4: the first command was a speak of MaxChunks chunks,
\* chunk 1 was handled by the engine and the fetch of chunk 2 is pending
InScenario(r) ==
    /\ r = 1 /\ runs[1].pc = "fetch" /\ runs[1].chunks = MaxChunks /\ runs[1].i = 1
    /\ runs[1].delivered /\ ~runs[1].aborted
    /\ \A q \in RunIds \ {1} : runs[q].pc = "idle"
    /\ budget.commands = 1

StartHandler(type, rate, origin) ==
    LET k == budget.handlers + 1
        res == ensureOffscreen(off, -k)
    IN /\ handlers' = [handlers EXCEPT ![k] = [type |-> type, rate |-> rate,
                                                origin |-> origin]]
       /\ off' = res.off
       /\ micro' = res.wake

\* lines 697-710: the stop command
StopCommand ==
    /\ micro = <<>>
    /\ budget.commands < MaxCommands
    /\ budget' = [budget EXCEPT !.commands = @ + 1, !.stops = @ + 1, !.handlers = @ + 1]
    /\ state' = [requestId |-> nextRequestId(state), aborters |-> {}]
    /\ runs' = abortAll(runs, state)
    /\ StartHandler("offscreen_stop", 0,
                    IF \E r \in RunIds : InFlight(runs[r]) /\ runs[r].requestId = state.requestId
                    THEN state.requestId ELSE 0)
    /\ hist' = [hist EXCEPT !.scenario = IF InScenario(1) THEN budget.commands + 1 ELSE @]
    /\ UNCHANGED <<eng, docAlive, chan, lastOp, nEnq, call>>

\* lines 712-747: pause, resume and set_playback_rate
ControlCommand ==
    /\ micro = <<>>
    /\ budget.commands < MaxCommands
    /\ budget' = [budget EXCEPT !.commands = @ + 1, !.handlers = @ + 1]
    /\ \/ StartHandler("offscreen_pause", 0, 0)
       \/ StartHandler("offscreen_resume", 0, 0)
       \/ \E rate \in CommandRates :
             StartHandler("offscreen_set_rate",
                          IF rate # NanRate /\ rate > 0 THEN rate ELSE DefaultRate, 0)
    /\ UNCHANGED <<eng, docAlive, state, runs, chan, lastOp, nEnq, call, hist>>

\* the callbacks of the current audio element, in the whole system
Handled(e) ==
    /\ eng' = e
    /\ hist' = TrackStart(hist, eng, e)
    /\ UNCHANGED <<lastOp, nEnq, call, cvars>>

Playing ==
    /\ docAlive /\ micro = <<>>
    /\ eng.current # NoUnit /\ eng.playPromise = "pending" /\ ~eng.paused
    /\ Handled(onplaying(eng))

PlayRejected ==
    /\ docAlive /\ micro = <<>>
    /\ eng.current # NoUnit /\ eng.playPromise \in {"pending", "aborting"}
    /\ Handled(onplayrejected(eng))

Ended ==
    /\ docAlive /\ micro = <<>>
    /\ eng.current # NoUnit /\ eng.playPromise = "ok" /\ ~eng.paused
    /\ Handled(onended([eng EXCEPT !.currentTime = eng.current.actual]))

AudioError ==
    /\ docAlive /\ micro = <<>>
    /\ eng.current # NoUnit
    /\ Handled(onerror(eng))

StaleRejected ==
    /\ docAlive /\ micro = <<>>
    /\ eng.orphan
    /\ \E more \in BOOLEAN : Handled(onplayrejectedStale(eng, more))

Init ==
    /\ eng = NewEngine
    /\ docAlive = FALSE
    /\ lastOp = [op |-> "init", arg |-> 0, prev |-> FALSE]
    /\ nEnq = 0
    /\ call = NoCall
    /\ CInit

Next ==
    \/ \E r \in RunIds : Speak(r) \/ GetTabDone(r) \/ GetTextDone(r, SpecPages)
                         \/ FetchDone(r, SpecReplies) \/ OnResponse(r)
    \/ \E t \in RunIds \cup {-k : k \in HandlerIds} : HasDocumentCached(t)
    \/ \E c \in CreationIds : \/ CreationHasDocument(c, SpecOutcomes)
                              \/ CreationCreateDocument(c, SpecOutcomes)
    \/ RunMicrotask
    \/ StopCommand \/ ControlCommand
    \/ Deliver \/ SendError \/ HostTeardown
    \/ Playing \/ PlayRejected \/ Ended \/ AudioError \/ StaleRejected

Spec == Init /\ [][Next]_vars

(***************************************************************************)
(* One speak request on its own, with every answer of the synthesis        *)
(* service.                                                                *)
(***************************************************************************)
NextRequest ==
    \/ budget.commands = 0 /\ Speak(1)
    \/ GetTabDone(1) \/ GetTextDone(1, Pages)
    \/ FetchDone(1, ServerReplies) \/ OnResponse(1)
    \/ HasDocumentCached(1)
    \/ \E c \in CreationIds : \/ CreationHasDocument(c, SpecOutcomes)
                              \/ CreationCreateDocument(c, SpecOutcomes)
    \/ RunMicrotask
    \/ Deliver \/ SendError \/ HostTeardown
    \/ Playing \/ PlayRejected \/ Ended \/ AudioError \/ StaleRejected

SpecRequest == Init /\ [][NextRequest]_vars

(***************************************************************************)
(* The Surface Lifecycle Manager on its own: the pause, resume and         *)
(* set_playback_rate commands call ensureOffscreen(), and a call of the    *)
(* host API inside a creation may reject.                                  *)
(***************************************************************************)
NextSurface ==
    \/ ControlCommand
    \/ \E k \in HandlerIds : HasDocumentCached(-k)
    \/ \E c \in CreationIds : \/ CreationHasDocument(c, HostOutcomes)
                              \/ CreationCreateDocument(c, HostOutcomes)
    \/ RunMicrotask
    \/ Deliver \/ HostTeardown

SpecSurface == Init /\ [][NextSurface]_vars

(***************************************************************************)
(* Claims about the engine alone (checked under SpecEngine).               *)
(***************************************************************************)
\* the position the engine would report now
playedSecNow(e) ==
    e.playedDurationSec + (IF e.current # NoUnit THEN e.currentTime ELSE 0)

Buffers(q) == [k \in DOMAIN q |-> Buffer(q[k])]

\* C5: whenever the last reported status is not done, the reported playedSec
\* is at most the reported totalSec + 0.05 s.
C5_PlayedWithinTotal ==
    eng.progress.state # "done" =>
        eng.progress.playedSec <= eng.progress.totalSec + DoneEpsMs

\* C6 as stated: pause() changes neither playedSec, totalSec, the current unit,
\* its position nor the queue, and reports the unchanged playedSec; resume()
\* right after pause() changes none of them either; a pause() right after a
\* pause() changes no engine state at all.
C6_Kept(a, b) ==
    /\ playedSecNow(b) = playedSecNow(a)
    /\ b.playedDurationSec = a.playedDurationSec
    /\ b.totalDurationSec = a.totalDurationSec
    /\ Buffer(b.current) = Buffer(a.current)
    /\ b.currentTime = a.currentTime
    /\ b.queue = a.queue

C6_PauseStep ==
    /\ (lastOp'.op = "pause" =>
          /\ C6_Kept(eng, eng')
          /\ eng'.progress = [state |-> "paused", playedSec |-> playedSecNow(eng),
                                totalSec |-> eng.totalDurationSec])
    /\ (lastOp.op = "pause" /\ lastOp'.op = "pause" => eng' = eng)

C7_RateReachesCurrentAndQueue ==
    [][ lastOp'.op = "setPlaybackRate" =>
          IF lastOp'.arg \in Rates
          THEN /\ eng'.playbackRate = lastOp'.arg
               /\ eng.current # NoUnit => eng'.current.playbackRate = lastOp'.arg
               /\ \A k \in DOMAIN eng'.queue : eng'.queue[k].playbackRate = lastOp'.arg
               /\ Buffers(eng'.queue) = Buffers(eng.queue)
               /\ Buffer(eng'.current) = Buffer(eng.current)
               /\ eng'.currentTime = eng.currentTime
               /\ eng'.playPromise = eng.playPromise
               /\ eng'.playedDurationSec = eng.playedDurationSec
               /\ eng'.totalDurationSec = eng.totalDurationSec
               /\ eng'.paused = eng.paused
          ELSE eng' = eng ]_vars

\* rate 1.5 was set in mid-play with a unit still queued
C7_Witness ==
    /\ lastOp.op = "setPlaybackRate" /\ lastOp.arg = 15
    /\ eng.current # NoUnit /\ eng.playPromise = "ok" /\ eng.currentTime > 0
    /\ eng.current.playbackRate = 15
    /\ Len(eng.queue) > 0
    /\ \A k \in DOMAIN eng.queue : eng.queue[k].playbackRate = 15

(***************************************************************************)
(* Claims about the whole system (checked under Spec).                     *)
(***************************************************************************)
\* the step hands the offscreen_enqueue at the head of chan to the engine
EnqueueHandled ==
    /\ micro = <<>> /\ chan # <<>> /\ chan' = Tail(chan)
    /\ Head(chan).type = "offscreen_enqueue"
    /\ Head(chan).live /\ docAlive
    /\ runs'[Head(chan).reply].response = "ok"

\* C1: once a newer speak has bumped the epoch, no offscreen_enqueue carrying
\* an older requestId is handed to the engine.
C1_NoOldEnqueueAfterNewSpeak ==
    [][ EnqueueHandled =>
          \A q \in RunIds : runs[q].requestId <= Head(chan).requestId ]_vars

\* C2: once the engine has processed the offscreen_stop of a stop command that
\* was accepted while a request was in flight, no unit of that request is
\* enqueued and none starts to play.
C2_NothingOfStoppedRequest ==
    [][ /\ EnqueueHandled => Head(chan).requestId \notin hist.stops
        /\ Starts(eng, eng') => eng'.current.rid \notin hist.stops ]_vars

\* C3: the units of one request reach the engine in increasing chunk order,
\* start in increasing chunk order, and when a unit starts no unit of its
\* request that was enqueued earlier is still waiting in the queue.
C3_ChunkOrder ==
    [][ /\ EnqueueHandled =>
              Head(chan).unit.idx > hist.enq[Head(chan).requestId]
        /\ Starts(eng, eng') /\ eng'.current.rid > 0 =>
              /\ eng'.current.idx > hist.started[eng'.current.rid]
              /\ \A k \in DOMAIN eng'.queue :
                    eng'.queue[k].rid = eng'.current.rid =>
                        eng'.queue[k].idx > eng'.current.idx ]_vars

\* chunk 2 began to play while chunk 3 waited behind it
C3_Witness ==
    /\ docAlive
    /\ eng.current # NoUnit /\ eng.current.idx = 2
    /\ hist.started[eng.current.rid] = 2
    /\ Len(eng.queue) = 1 /\ eng.queue[1].idx = 3

\* C4: stop issued after chunk 1 of a speak was enqueued and while the fetch
\* of chunk 2 is pending: that fetch is aborted, no fetch of chunk 3 is ever
\* started, the request ends with `stopped`, and once the engine has processed
\* the offscreen_stop it holds no unit and its reported state is stopped (for
\* as long as no further command is issued).
C4_StopDuringSecondFetch ==
    hist.scenario # 0 =>
        /\ runs[1].aborted
        /\ runs[1].i = 1 /\ runs[1].pc \in {"fetch", "done"}
        /\ <<1, 3>> \notin state.aborters
        /\ runs[1].pc = "done" => runs[1].stopped /\ runs[1].terminal = "stopped"
        /\ runs[1].requestId \in hist.stops /\ docAlive
              /\ budget.commands = hist.scenario =>
              /\ eng.queue = <<>> /\ eng.current = NoUnit
              /\ eng.progress.state = "stopped"

C4_Witness ==
    /\ hist.scenario # 0
    /\ runs[1].pc = "done"
    /\ runs[1].requestId \in hist.stops /\ docAlive
    /\ eng.progress.state = "stopped"

C9_OneTerminalEvent ==
    [][ \A r \in RunIds :
          /\ runs[r].terminal # "none" => runs'[r].terminal = runs[r].terminal
          /\ runs'[r].pc = "done" <=> runs'[r].terminal \in {"done", "stopped"}
          /\ runs[r].terminal = "none" /\ runs'[r].terminal # "none" =>
                (runs'[r].terminal = "done" <=>
                    /\ runs'[r].i = runs'[r].chunks
                    /\ ~runs'[r].stopped
                    /\ runs'[r].requestId = state'.requestId) ]_vars

\* a superseded speak ended with `stopped`, the one after it with `done`
C9_Witness ==
    /\ runs[1].terminal = "stopped"
    /\ runs[2].terminal = "done" /\ runs[2].chunks = MaxChunks

\* C10: the `chunk` event of a chunk is emitted (the loop index advances) only
\* after the engine handled the chunk's offscreen_enqueue.
C10_ChunkEventOnlyAfterEnqueue ==
    [][ \A r \in RunIds : runs'[r].i = runs[r].i + 1 => runs[r].delivered ]_vars

(***************************************************************************)
(* Claims about the handling of errors (C13 under Spec, the others under   *)
(* SpecRequest).                                                           *)
(***************************************************************************)
\* C11: when the synthesis service answers a fetch with a non-success status,
\* runSpeak throws (the speak is answered {ok: false, error}) and the request
\* takes no further step: no later chunk is fetched or enqueued.
C11_ServiceErrorFailsRequest ==
    [][ \A r \in RunIds :
          /\ runs[r].pc = "fetch" /\ runs'[r].httpStatus # 0 =>
                runs'[r].pc = "failed" /\ runs'[r].error = "tts"
          /\ runs[r].httpStatus # 0 =>
                runs'[r].pc = runs[r].pc /\ runs'[r].i = runs[r].i ]_vars

\* C12: a request that failed ({ok: false, error}) on a synthesis error or on
\* the access to the page also emitted a `stopped` or failure progress event.
C12_FailureHasProgressEvent ==
    \A r \in RunIds :
        runs[r].pc = "failed" /\ runs[r].error \in {"tts", "page", "notext"} =>
            runs[r].terminal # "none"

\* C13: when the pending fetch of a request was aborted (its epoch was
\* superseded or stop was issued), runSpeak returns normally ({ok: true}), its
\* terminal event is `stopped`, and the remaining chunks are dropped: the
\* request takes no further step.
C13_CancelledIsNotAnError ==
    [][ \A r \in RunIds :
          /\ runs[r].pc = "fetch" /\ runs[r].aborted /\ runs'[r].pc # "fetch" =>
                /\ runs'[r].pc = "done" /\ runs'[r].error = "none"
                /\ runs'[r].terminal = "stopped"
                /\ runs'[r].i = runs[r].i
          /\ runs[r].pc = "done" => runs'[r].pc = "done" /\ runs'[r].i = runs[r].i ]_vars

\* the fetch of chunk 1 of a request of MaxChunks chunks was aborted by a newer
\* speak, and the request returned
C13_Witness ==
    /\ runs[1].pc = "done" /\ runs[1].aborted /\ runs[1].stopped
    /\ runs[1].httpStatus = 0
    /\ runs[1].i = 0 /\ runs[1].chunks = MaxChunks
    /\ runs[2].requestId # 0

\* C14: audio that fails the inspection of its container is not enqueued to
\* the engine.
C14_MalformedAudioIsSkipped ==
    [][ EnqueueHandled => runs[Head(chan).reply].wavOk ]_vars

\* C17: a request that meets a restricted URL, or a content script that is
\* missing and answers none of the 5 pings after its injection, fails with the
\* message about the page, and no fetch of it is ever started.
C17_PageAccessFailsFast ==
    \A r \in RunIds :
        runs[r].page \in {"restricted", "unreachable"} =>
            /\ runs[r].pc = "failed" /\ runs[r].error = "page"
            /\ runs[r].i = 0 /\ runs[r].chunks = 0
            /\ \A k \in 1..MaxChunks : <<r, k>> \notin state.aborters

\* the content script was missing and answered no ping after its injection
C17_Witness ==
    runs[1].page = "unreachable" /\ runs[1].pc = "failed"

\* C18: a request on an accessible page whose text is empty completes as a
\* no-op: zero chunks, {ok: true}, no fetch.
C18_EmptyTextIsNoOp ==
    \A r \in RunIds :
        runs[r].page = "empty" =>
            /\ runs[r].pc = "done" /\ runs[r].error = "none"
            /\ runs[r].chunks = 0 /\ runs[r].i = 0

\* C15: when the current unit fails to render (error event, or play()
\* rejected), it is discarded, playedSec is not incremented, no queued unit is
\* lost, and the head of the queue is started (at once, or by resume() when
\* the engine is paused); the engine is not stopped.  Under SpecEngine.
C15_RenderFailureIsSkipped ==
    [][ lastOp'.op \in {"error", "playrejected"} =>
          /\ eng'.playedDurationSec = eng.playedDurationSec
          /\ eng'.totalDurationSec = eng.totalDurationSec
          /\ playedSecNow(eng') <= playedSecNow(eng)
          /\ eng'.paused = eng.paused /\ eng'.requestId = eng.requestId
          /\ eng'.progress.state # "stopped"
          /\ IF eng.queue # <<>> /\ ~eng.paused
             THEN /\ eng'.current = Head(eng.queue)
                  /\ eng'.currentTime = 0
                  /\ eng'.queue = Tail(eng.queue)
             ELSE /\ eng'.current = NoUnit
                  /\ eng'.queue = eng.queue
                  /\ resume(eng').current =
                        IF eng.queue = <<>> THEN NoUnit ELSE Head(eng.queue) ]_vars

\* a unit failed in mid-play with two units behind it; the next one is current
C15_Witness ==
    /\ lastOp.op = "error"
    /\ eng.current # NoUnit /\ Len(eng.queue) = 1
    /\ eng.progress.playedSec > 0

\* C16: sendToOffscreen resends only after a first send that found no
\* receiver, only after clearing the ready flag and re-ensuring the offscreen
\* document, and only once; after another error, after the answer to the
\* resend and after a failed re-ensure it resolves (the loop goes on) and
\* does not throw.
C16_OneRetryThenNull ==
    [][ \A r \in RunIds :
          LET resolved == /\ runs'[r].i = runs[r].i + 1
                          /\ runs'[r].pc \in {"fetch", "done"}
                          /\ chan' = chan
          IN /\ runs[r].pc = "awaitResp" /\ runs'[r].pc # "awaitResp" =>
                   IF runs[r].response = "gone"
                   THEN /\ runs'[r].pc = "retryEnsure" /\ runs'[r].i = runs[r].i
                        /\ ~off'.offscreenReady
                        /\ chan' = chan
                   ELSE resolved
             /\ runs[r].pc = "retryEnsure" /\ runs'[r].pc # "retryEnsure" =>
                   IF runs'[r].pc = "awaitRetry"
                   THEN /\ chan' = Append(chan, enqueueMessage(runs[r], r))
                        /\ runs'[r].i = runs[r].i
                   ELSE resolved
             /\ runs[r].pc = "awaitRetry" /\ runs'[r].pc # "awaitRetry" => resolved ]_vars

\* the resend failed too
C16_Witness ==
    \E r \in RunIds : runs[r].pc = "awaitRetry" /\ runs[r].response = "other"

(***************************************************************************)
(* The Segmenter alone: chunkText applied to every text of at most MaxText *)
(* characters over Alphabet, with every maxLen of 1..MaxLen.               *)
(***************************************************************************)
Alphabet == {"a", ".", " ", "\n"}

Texts == UNION {[1..n -> Alphabet] : n \in 0..MaxText}

DEFAULT_CHUNK_SIZE == 420        \* text.ts:250

\* Where the two sentences end in the texts below: near 400 and near 810.
ScenarioMarks == {399, 400, 401} \X {809, 810, 811}

\* A normalized text of 1,000 characters: words of five letters, and two
\* sentence ends (a full stop and a space) at the offsets p1 and p2.
ScenarioText(p1, p2) ==
    [k \in 1..1000 |->
        LET o == k - 1
        IN IF o \in {p1, p2} THEN "."
           ELSE IF o \in {p1 + 1, p2 + 1} THEN " "
           ELSE IF o % 6 = 5 /\ o \notin {p1 - 1, p1 + 2, p2 - 1, p2 + 2} THEN " "
           ELSE "a"]

ScenarioCalls ==
    { [text |-> ScenarioText(m[1], m[2]), maxLen |-> DEFAULT_CHUNK_SIZE,
       done |-> FALSE, chunks |-> <<>>] : m \in ScenarioMarks }

TextInit ==
    /\ eng = NewEngine
    /\ docAlive = FALSE
    /\ lastOp = [op |-> "init", arg |-> 0, prev |-> FALSE]
    /\ nEnq = 0
    /\ CInit
    /\ call \in [text : Texts, maxLen : 1..MaxLen, done : {FALSE}, chunks : {<<>>}]
                 \cup ScenarioCalls

ChunkText ==
    /\ ~call.done
    /\ call' = [call EXCEPT !.done = TRUE,
                            !.chunks = chunkText(call.text, call.maxLen)]
    /\ UNCHANGED <<eng, lastOp, nEnq, hist, cvars>>

SpecText == TextInit /\ [][ChunkText]_vars

\* the chunk has no whitespace in it
isRun(chunk) == \A k \in DOMAIN chunk : ~isSpace(chunk[k])

\* chunks.join(" ")
RECURSIVE join(_)
join(chunks) ==
    IF chunks = <<>> THEN <<>>
    ELSE IF Len(chunks) = 1 THEN chunks[1]
    ELSE chunks[1] \o <<" ">> \o join(Tail(chunks))

\* C19: every chunk of chunkText(T, L) is non-empty and no longer than L,
\* unless it is one whitespace-free run longer than L.  Under SpecText.
C19_ChunksAreBounded ==
    call.done =>
        \A k \in DOMAIN call.chunks :
            /\ call.chunks[k] # <<>>
            /\ \/ Len(call.chunks[k]) <= call.maxLen
               \/ isRun(call.chunks[k])

\* a text with a whitespace-free run longer than maxLen has been chunked
C19_Witness ==
    /\ call.done /\ Len(call.chunks) >= 2
    /\ \E a \in 0..Len(call.text), b \in 0..Len(call.text) :
          /\ b - a > call.maxLen
          /\ isRun(slice(call.text, a, b))

\* C20: the chunks of chunkText(T, L), joined with single spaces, are the
\* whitespace-normalized T.  Under SpecText.
C20_ChunksRejoin ==
    call.done => join(call.chunks) = normalizeText(call.text)

\* the string has a whitespace-free run of more than n characters
hasLongRun(s, n) ==
    \E a \in 0..(Len(s) - n - 1) : isRun(slice(s, a, a + n + 1))

\* the maximal whitespace-free runs of the string, as pairs of indices
maximalRuns(s) ==
    { ab \in (0..Len(s)) \X (0..Len(s)) :
        /\ ab[1] < ab[2]
        /\ (ab[1] = 0 \/ isSpace(s[ab[1]]))
        /\ (ab[2] = Len(s) \/ isSpace(s[ab[2] + 1]))
        /\ isRun(slice(s, ab[1], ab[2])) }

\* chunks.join("")
RECURSIVE concat(_)
concat(chunks) ==
    IF chunks = <<>> THEN <<>> ELSE chunks[1] \o concat(Tail(chunks))

noSpaces(s) == SelectSeq(s, LAMBDA c : ~isSpace(c))

marksIn(sl) ==
    {k \in 1..(Len(sl) - 2) : sl[k + 1] \in {".", "!", "?"} /\ sl[k + 2] = " "}

\* the offsets in the window, from the given one on, of a space
spacesIn(sl, from) == {k \in from..(Len(sl) - 1) : sl[k + 1] = " "}

Max(S) == CHOOSE k \in S : \A j \in S : j <= k

\* the cut of the window: after the rightmost mark, else at the last space
\* (looked for from the given offset on), else after maxLen characters
ruleCut(cleaned, maxLen, start, from) ==
    LET sl == slice(cleaned, start, start + maxLen)
    IN IF marksIn(sl) # {} THEN start + Max(marksIn(sl)) + 1
       ELSE IF spacesIn(sl, from) # {} THEN start + Max(spacesIn(sl, from))
       ELSE start + maxLen

\* where the windows of the loop begin
RECURSIVE windowStarts(_, _, _)
windowStarts(cleaned, maxLen, start) ==
    IF start >= Len(cleaned) THEN {}
    ELSE {start} \cup windowStarts(cleaned, maxLen, windowEnd(cleaned, maxLen, start))

\* every window that does not reach the end of the text is cut by the rule
C22_CutByRule(from) ==
    call.done /\ Len(normalizeText(call.text)) > call.maxLen =>
        LET cleaned == normalizeText(call.text)
        IN \A start \in windowStarts(cleaned, call.maxLen, 0) :
              start + call.maxLen < Len(cleaned) =>
                  windowEnd(cleaned, call.maxLen, start) =
                      ruleCut(cleaned, call.maxLen, start, from)

ConfirmedNow(t) ==
    /\ docAlive'
    /\ \/ docAlive /\ t \in off.cached /\ t \notin off'.cached
       \/ \E c \in CreationIds :
             /\ off.creations[c].st \in {"has", "create"}
             /\ \E j \in DOMAIN off.creations[c].waiters : off.creations[c].waiters[j] = t
             /\ off'.creations[c].st \notin {"has", "create", "failed"}

\* C23: a message is sent to the offscreen document only by the continuation
\* of an ensureOffscreen() call that resolved, and an ensureOffscreen() call
\* resolves only in a step that confirms the document for it; the ready flag
\* alone resolves none.
C23_SendOnlyAfterConfirmedEnsure ==
    [][ /\ Len(chan') > Len(chan) => micro # <<>> /\ Head(micro).ok
        /\ micro # <<>> => micro' = Tail(micro)
        /\ micro = <<>> =>
              \A k \in DOMAIN micro' : micro'[k].ok => ConfirmedNow(micro'[k].t) ]_vars

\* after the host closed the document, a message is on its way to a new one
C23_Witness ==
    /\ budget.teardowns = 1
    /\ \E k \in DOMAIN chan : chan[k].live

(***************************************************************************)
(* The Audio Container Inspector alone: inspectWavHeader and the duration  *)
(* that runSpeak derives from it, applied to buffers of every length class *)
(* with every combination of the header fields below.                      *)
(***************************************************************************)
WavBuffers ==
    [ byteLength : {0, 8, 11, 12, 43, 44, 48044},
      riff : {"RIFF", "OggS"}, wave : {"WAVE", "...."},
      channels : {0, 1, 2}, sampleRate : {0, 1000, 24000},
      bitsPerSample : {0, 8, 16}, dataSize : {0, 1000, 48000} ]

WavInit ==
    /\ eng = NewEngine
    /\ docAlive = FALSE
    /\ lastOp = [op |-> "init", arg |-> 0, prev |-> FALSE]
    /\ nEnq = 0
    /\ CInit
    /\ call \in [buf : WavBuffers, done : {FALSE}, wavMeta : {inspectWavHeader(ShortWav)},
                 chunkDurationSec : {0}]

InspectWav ==
    /\ ~call.done
    /\ call' = [call EXCEPT !.done = TRUE,
                            !.wavMeta = inspectWavHeader(call.buf),
                            !.chunkDurationSec = durationOf(inspectWavHeader(call.buf))]
    /\ UNCHANGED <<eng, lastOp, nEnq, hist, cvars>>

SpecWav == WavInit /\ [][InspectWav]_vars

\* C24: a buffer of fewer than 12 bytes is not ok, for the reason "too
\* short"; the 44-byte buffer with RIFF/WAVE, 24000 Hz, 1 channel, 16 bits
\* and dataSize 48000 has a duration of exactly 1 s; the duration is null
\* (0 here) when the buffer has fewer than 44 bytes or one of sampleRate,
\* channels, bitsPerSample, dataSize is not positive, and is known otherwise.
\* Under SpecWav.
C24_InspectorAndDuration ==
    call.done =>
        LET b == call.buf
            known == /\ b.byteLength >= 44
                     /\ b.sampleRate > 0 /\ b.channels > 0
                     /\ b.bitsPerSample > 0 /\ b.dataSize > 0
        IN /\ b.byteLength < 12 =>
                 ~call.wavMeta.ok /\ call.wavMeta.reason = "too short"
           /\ b.byteLength >= 12 =>
                 (call.wavMeta.ok <=> b.riff = "RIFF" /\ b.wave = "WAVE")
           /\ /\ b.byteLength = 44 /\ b.riff = "RIFF" /\ b.wave = "WAVE"
              /\ b.sampleRate = 24000 /\ b.channels = 1
              /\ b.bitsPerSample = 16 /\ b.dataSize = 48000
              => call.chunkDurationSec = 1000
           /\ ~known => call.chunkDurationSec = 0
           /\ known => call.chunkDurationSec > 0

\* the buffer of 44 bytes of the example has been inspected
C24_Witness ==
    /\ call.done /\ call.buf.byteLength = 44 /\ call.wavMeta.ok
    /\ call.buf.sampleRate = 24000 /\ call.buf.dataSize = 48000
    /\ call.chunkDurationSec = 1000

\* the units the engine holds: the current one, then the queue
held(e) == (IF e.current # NoUnit THEN <<e.current>> ELSE <<>>) \o e.queue

\* C25: enqueue(unit, epoch) with a non-null epoch, on an engine bound to
\* another non-null epoch, resets the engine first: afterwards the engine is
\* bound to the new epoch, the new unit is the only unit held, the played
\* time is 0 and the total is the known duration of the unit (0 if unknown).
\* Under SpecEngine.
C25_StaleEpochIsOverridden ==
    [][ lastOp'.op = "enqueue" =>
          \A u \in EngineUnits, rid \in 1..MaxEpoch :
              /\ eng.requestId # 0 /\ rid # eng.requestId
              /\ eng' = enqueue(eng, u, rid)
              => /\ lastOp'.arg = 1
                 /\ eng'.requestId = rid
                 /\ held(eng') = <<u>>
                 /\ (eng'.current = u <=> ~eng.paused)
                 /\ eng'.playedDurationSec = 0 /\ playedSecNow(eng') = 0
                 /\ eng'.totalDurationSec = u.durationSec
                 /\ eng'.progress = [state |-> "buffering", playedSec |-> 0,
                                     totalSec |-> u.durationSec] ]_vars

\* the third unit enqueued was of another epoch than the engine, which now
\* holds that unit alone
C25_Witness ==
    /\ lastOp.op = "enqueue" /\ lastOp.arg = 1
    /\ nEnq = 3 /\ Len(held(eng)) = 1
    /\ eng.totalDurationSec > 0

\* C26: reset(epoch), in any state of the engine, leaves no current unit, an
\* empty queue, played and total time 0 and the engine bound to the epoch;
\* the progress event it emits last is idle with playedSec = totalSec = 0.
\* Under SpecEngine.
C26_ResetClearsAndRebinds ==
    [][ lastOp'.op = "reset" =>
          /\ eng'.current = NoUnit /\ eng'.queue = <<>>
          /\ eng'.playPromise = "none" /\ eng'.currentTime = 0
          /\ eng'.playedDurationSec = 0 /\ eng'.totalDurationSec = 0
          /\ eng'.currentDurationSec = 0
          /\ eng'.requestId = lastOp'.arg
          /\ eng'.progress = [state |-> "idle", playedSec |-> 0, totalSec |-> 0] ]_vars

\* reset(MaxEpoch) was applied to a paused engine
C26_Witness ==
    /\ lastOp.op = "reset" /\ lastOp.arg = MaxEpoch
    /\ eng.paused /\ eng.requestId = MaxEpoch

\* C27: resume() clears paused; with a current unit it goes on with that
\* unit at its position and leaves the queue alone; with none it starts the
\* head of the queue, if there is one.  Under SpecEngine.
C27_ResumeContinuesOrStartsHead ==
    [][ lastOp'.op = "resume" =>
          /\ ~eng'.paused
          /\ eng'.playedDurationSec = eng.playedDurationSec
          /\ eng'.totalDurationSec = eng.totalDurationSec
          /\ IF eng.current # NoUnit
             THEN /\ Buffer(eng'.current) = Buffer(eng.current)
                  /\ eng'.currentTime = eng.currentTime
                  /\ eng'.queue = eng.queue
                  /\ eng'.progress.state = "playing"
             ELSE IF eng.queue # <<>>
             THEN /\ eng'.current = Head(eng.queue)
                  /\ eng'.currentTime = 0
                  /\ eng'.queue = Tail(eng.queue)
             ELSE eng'.current = NoUnit /\ eng'.queue = <<>> ]_vars

\* resume() found no current unit and started the first of two queued units
C27_Witness ==
    /\ lastOp.op = "resume"
    /\ eng.current # NoUnit /\ eng.currentTime = 0 /\ eng.playPromise = "pending"
    /\ Len(eng.queue) = 1 /\ nEnq = 2

\* the run starts a fetch in this step
StartsFetch(r) ==
    runs'[r].pc = "fetch" /\ (runs[r].pc # "fetch" \/ runs'[r].i # runs[r].i)

\* C28: a request has one fetch at a time, and starts the fetch of chunk
\* n + 1 only when the enqueue send of chunk n has completed: answered,
\* failed, or resent and resolved; no enqueue message of the request is then
\* on its way.
C28_LoopIsSequential ==
    [][ \A r \in RunIds :
          /\ StartsFetch(r) =>
                /\ runs[r].pc # "fetch"
                /\ \/ runs[r].pc = "getText" /\ runs'[r].i = 0
                   \/ /\ runs'[r].i = runs[r].i + 1
                      /\ \/ /\ runs[r].pc \in {"awaitResp", "awaitRetry"}
                            /\ runs[r].response # "none"
                         \/ runs[r].pc = "retryEnsure"
                /\ \A k \in DOMAIN chan' : chan'[k].reply # r
          /\ runs[r].pc = "fetch" /\ runs'[r].pc = "fetch" =>
                runs'[r].i = runs[r].i ]_vars

\* the fetch of the last chunk is pending; the document was closed and made
\* again on the way
C28_Witness ==
    \E r \in RunIds :
        /\ runs[r].pc = "fetch" /\ runs[r].i = MaxChunks - 1 /\ ~runs[r].aborted
        /\ budget.teardowns = 1 /\ docAlive

\* every pending fetch of a request whose epoch is not the current one has
\* been aborted, and the controller of every other pending fetch is in
\* state.aborters
StaleFetchesAborted ==
    \A r \in RunIds :
        runs[r].pc = "fetch" =>
            /\ runs[r].requestId # state.requestId => runs[r].aborted
            /\ ~runs[r].aborted => <<r, runs[r].i + 1>> \in state.aborters

\* C29: a fetch is started only by a request whose epoch is current, and in
\* no state is a fetch of a request whose epoch is not current pending and
\* not aborted.
C29_FetchOnlyUnderCurrentEpoch ==
    [][ /\ \A r \in RunIds :
              StartsFetch(r) =>
                  /\ runs'[r].requestId = state'.requestId
                  /\ <<r, runs'[r].i + 1>> \in state'.aborters
                  /\ ~runs'[r].aborted
        /\ StaleFetchesAborted' ]_vars

\* the fetch of a request has been aborted by a newer speak, whose own fetch
\* is pending
C29_Witness ==
    /\ runs[1].pc = "fetch" /\ runs[1].aborted
    /\ runs[1].requestId # state.requestId
    /\ runs[2].pc = "fetch" /\ ~runs[2].aborted

\* the creations whose createDocument() call is outstanding
Creating(o) == {c \in CreationIds : o.creations[c].st = "create"}

\* C30: at most one createDocument() call is outstanding at a time, and no
\* creation calls createDocument() while another creation is in flight.
C30_NoDuplicateCreation ==
    [][ /\ \A c \in CreationIds :
              off.creations[c].st = "has" /\ off'.creations[c].st = "create" =>
                  \A d \in CreationIds \ {c} :
                      off.creations[d].st \notin {"has", "create"}
        /\ Cardinality(Creating(off')) <= 1 ]_vars

\* C31: stop() and reset() leave the engine not paused, and the unit
\* enqueued next, with no pause() in between, starts playing without a
\* resume().  Under SpecEngine.
C31_EnqueueAfterStopPlays ==
    [][ /\ lastOp'.op \in {"stop", "reset"} => ~eng'.paused
        /\ lastOp.op \in {"stop", "reset"} /\ lastOp'.op = "enqueue" =>
              eng'.current # NoUnit /\ eng'.playPromise = "pending" ]_vars

\* C32: an enqueue tagged with an epoch older than the one the engine is
\* bound to neither rebinds the engine nor discards the units it holds.
C32_EpochNeverMovesBack ==
    [][ EnqueueHandled /\ eng.requestId # 0 /\ Head(chan).requestId # 0
        /\ Head(chan).requestId < eng.requestId =>
              /\ eng'.requestId = eng.requestId
              /\ \A k \in DOMAIN held(eng) : Buffer(held(eng')[k]) = Buffer(held(eng)[k]) ]_vars


\* the chunks of the request the engine is bound to that are still being
\* synthesized or are yet to be sent to the engine
Outstanding(e) ==
    { r \in RunIds : /\ runs[r].requestId = e.requestId
                     /\ runs[r].pc \in {"fetch", "sendEnsure"} }

\* C33: the engine reports `done` for a request only when no chunk of that
\* request is still being synthesized or yet to be enqueued, and no
\* `buffering` or `playing` of the same epoch follows a `done`.
C33_DoneIsTerminal ==
    [][ /\ eng'.progress.state = "done" /\ eng'.requestId # 0 => Outstanding(eng)' = {}
        /\ eng.progress.state = "done" /\ eng'.requestId = eng.requestId =>
              eng'.progress.state \notin {"buffering", "playing"} ]_vars

\* every unit enqueued since the engine was last at rest had a known
\* positive duration: each added its duration to the total
AllKnown(e) == nEnq >= 1 /\ \E a \in ActualMs : e.totalDurationSec = nEnq * a

\* C34: when the queue drains with the engine neither paused nor stopped and
\* every unit had a known positive duration, the engine reports `done`,
\* also when a unit left the engine by a render failure.  Under SpecEngine.
C34_FailureStillCompletes ==
    [][ /\ lastOp'.op \in {"ended", "error", "playrejected"}
        /\ eng'.current = NoUnit /\ eng'.queue = <<>> /\ ~eng'.paused
        /\ AllKnown(eng')
        => eng'.progress.state = "done" ]_vars

\* C35: once set_playback_rate(r) was handled while the engine was bound to
\* a request, every unit of that request that starts playing afterwards
\* plays at rate r, units enqueued after the rate change included.
C35_RateAppliesToLaterUnits ==
    [][ /\ Starts(eng, eng') /\ eng'.current.rid # 0
        /\ hist.rate[eng'.current.rid] # 0
        => eng'.current.playbackRate = hist.rate[eng'.current.rid] ]_vars

\* C36: resume() after pause() leaves the playback rate of the current unit
\* as it was before the pause, also when the unit was enqueued with a rate
\* other than the engine-level rate.  Under SpecEngine.
C36_ResumeKeepsRate ==
    [][ /\ lastOp.op = "pause" /\ lastOp'.op = "resume"
        /\ eng.current # NoUnit
        => eng'.current.playbackRate = eng.current.playbackRate ]_vars

\* run r has emitted its `start` progress event
Started(r) ==
    \/ runs[r].pc \in {"fetch", "sendEnsure", "awaitResp", "retryEnsure",
                       "awaitRetry", "done"}
    \/ runs[r].pc = "failed" /\ runs[r].error = "tts"

\* run r emits a progress event in this step: start, chunk, done or stopped
Emits(r) ==
    \/ ~Started(r) /\ Started(r)'
    \/ runs'[r].i # runs[r].i
    \/ runs'[r].terminal # runs[r].terminal

\* C37: once a newer speak has emitted its `start` progress event, an older,
\* superseded runSpeak emits no progress event any more.
C37_NoEventFromSupersededRun ==
    [][ \A r, q \in RunIds :
           /\ runs[r].requestId # 0 /\ runs[q].requestId > runs[r].requestId
           /\ Started(q)
           => ~Emits(r) ]_vars

\* offscreenCreating holds the promise of a creation that rejected, and
\* offscreenReady is not set
CreationRejected(o) ==
    /\ o.offscreenCreating # 0
    /\ o.creations[o.offscreenCreating].st = "failed"
    /\ ~o.offscreenReady

\* C38: after a creation rejected, a later ensureOffscreen() attempts the
\* creation again: a caller is handed a rejection only by a creation that
\* rejects in that very step, never by a promise that had rejected before.
C38_FailedCreationIsRetried ==
    [][ CreationRejected(off) /\ micro' # <<>> /\ micro = <<>> =>
            \A k \in DOMAIN micro' : micro'[k].ok ]_vars

\* the operations and callbacks that leave the current unit in place
KeepsCurrent ==
    \/ lastOp'.op \in {"resume", "pause", "setPlaybackRate", "playing",
                       "timeupdate", "stalerejected"}
    \/ lastOp'.op = "enqueue" /\ lastOp'.arg = 0

\* C39: at most one unit is rendering: while there is a current unit, no
\* enqueue, resume or other callback starts a unit from the queue, and the
\* callback of an already discarded unit changes neither the queue nor the
\* current unit.  Under SpecEngine.
C39_OneUnitAtATime ==
    [][ /\ eng.current # NoUnit /\ KeepsCurrent =>
              /\ Buffer(eng'.current) = Buffer(eng.current)
              /\ Len(eng'.queue) >= Len(eng.queue)
        /\ lastOp'.op = "stalerejected" =>
              /\ eng'.queue = eng.queue /\ eng'.current = eng.current
              /\ eng'.playPromise = eng.playPromise ]_vars

\* the play() promise of a discarded unit rejected while a newer unit is
\* current and another one waits in the queue
C39_Witness ==
    /\ lastOp.op = "stalerejected"
    /\ eng.current # NoUnit /\ eng.queue # <<>>

(***************************************************************************)
(* chunkText, one iteration of its loop at a time.  call holds the         *)
(* arguments, the loop variable start, the chunks pushed so far and iter,  *)
(* the number of steps the call has taken.                                 *)
(***************************************************************************)
LoopInit ==
    /\ eng = NewEngine
    /\ docAlive = FALSE
    /\ lastOp = [op |-> "init", arg |-> 0, prev |-> FALSE]
    /\ nEnq = 0
    /\ CInit
    /\ \E c \in [text : Texts, maxLen : 1..MaxLen, done : {FALSE}, chunks : {<<>>}]
                  \cup ScenarioCalls :
          call = [text |-> c.text, maxLen |-> c.maxLen, done |-> FALSE,
                  chunks |-> <<>>, start |-> 0, iter |-> 0]

\* lines 6-11: the text is normalized; an empty or short text returns
ChunkEnter ==
    /\ ~call.done /\ call.iter = 0
    /\ LET cleaned == normalizeText(call.text)
       IN call' = IF cleaned = <<>> \/ Len(cleaned) <= call.maxLen
                  THEN [call EXCEPT !.iter = 1, !.done = TRUE,
                                    !.chunks = IF cleaned = <<>> THEN <<>> ELSE <<cleaned>>]
                  ELSE [call EXCEPT !.iter = 1]
    /\ UNCHANGED <<eng, lastOp, nEnq, hist, cvars>>

\* lines 12-32: one iteration of the loop; no call takes more iterations
\* than its text has characters unless the loop stopped advancing
ChunkIterate ==
    /\ ~call.done /\ call.iter >= 1
    /\ LET cleaned == normalizeText(call.text)
           it == chunkStep(cleaned, call.maxLen, call.start, call.chunks)
       IN /\ call.start < Len(cleaned)
          /\ call.iter <= Len(cleaned)
          /\ call' = [call EXCEPT !.iter = @ + 1, !.start = it.start,
                                  !.chunks = it.chunks]
    /\ UNCHANGED <<eng, lastOp, nEnq, hist, cvars>>

\* lines 12 and 34: the loop ends and the chunks are returned
ChunkReturn ==
    /\ ~call.done /\ call.iter >= 1
    /\ call.start >= Len(normalizeText(call.text))
    /\ call' = [call EXCEPT !.iter = @ + 1, !.done = TRUE]
    /\ UNCHANGED <<eng, lastOp, nEnq, hist, cvars>>

SpecLoop == LoopInit /\ [][ChunkEnter \/ ChunkIterate \/ ChunkReturn]_vars

\* C40: chunkText terminates for every text and positive maxLen: on every
\* iteration of the loop the window start strictly increases, and it never
\* passes the end of the normalized text.  Under SpecLoop.
C40_WindowStartIncreases ==
    [][ call.iter >= 1 /\ ~call'.done =>
            /\ call'.start > call.start
            /\ call'.start <= Len(normalizeText(call.text)) ]_vars

\* a call returned after three iterations of its loop
C40_Witness == call.done /\ call.iter = 5 /\ Len(call.chunks) = 3

====
